---- MODULE Spec2Model ----
(***************************************************************************)
(* A model of src/main.py: the TensorBoard metrics visualizer.            *)
(*   find_tb_files -> load_tb_data -> create_visualization (smooth_values) *)
(* Numbers that Python holds as floats are exact rationals <<num, den>>    *)
(* here (den > 0); IEEE rounding is not modelled.  Paths are sequences of  *)
(* components; a rendered path string is [abs, parts].                    *)
(***************************************************************************)
EXTENDS Integers, Sequences, FiniteSets, TLC

(* ------------------------------ bounds -------------------------------- *)
\* longest tb_files list handed to load_tb_data directly
MaxFiles == 2
\* longest base_directories / directories list
MaxBases == 2
\* max_step ranges over None and 0..MaxStepArg
MaxStepArg == 2
\* max_cols ranges over 1..MaxCols
MaxCols == 3
\* smooth_window ranges over None and 0..MaxWindow
MaxWindow == 3
\* longest sequence handed to smooth_values directly
MaxLen == 3

\* Optional[int]: None is <<>>, the integer m is <<m>>
NoneInt == <<>>

Some(m) == <<m>>

OptInts(lo, hi) == {NoneInt} \cup {Some(m) : m \in lo..hi}

\* smooth_method = None
NoMethod == "None"

(* ------------------------------ helpers ------------------------------- *)
Range(s) == {s[i] : i \in 1..Len(s)}

SeqsUpTo(S, n) == UNION {[1..k -> S] : k \in 0..n}

Min(a, b) == IF a <= b THEN a ELSE b

Max(a, b) == IF a >= b THEN a ELSE b

\* a Python float, exactly
Rat(n, d) == <<n, d>>

RECURSIVE Gcd(_, _)
Gcd(a, b) == IF b = 0 THEN a ELSE Gcd(b, a % b)

Abs(a) == IF a < 0 THEN -a ELSE a

\* the same number in lowest terms
Reduced(p) ==
    LET g == Gcd(Abs(p[1]), p[2])
    IN <<p[1] \div g, p[2] \div g>>

RatAdd(p, q) == Reduced(<<p[1] * q[2] + q[1] * p[2], p[2] * q[2]>>)

RatMul(p, q) == Reduced(<<p[1] * q[1], p[2] * q[2]>>)

RatEq(p, q) == p[1] * q[2] = q[1] * p[2]

\* element-wise numeric equality of two float arrays
SameValues(a, b) ==
    /\ Len(a) = Len(b)
    /\ \A i \in 1..Len(a) : RatEq(a[i], b[i])

(* ------------------------------- paths -------------------------------- *)
\* pathlib: base is log_dir itself or one of its ancestors
IsRelativeTo(p, base) ==
    /\ Len(base) <= Len(p)
    /\ SubSeq(p, 1, Len(base)) = base

\* str(log_dir.relative_to(base_path)); str(Path()) is "."
RelativeTo(p, base) ==
    [abs |-> FALSE, parts |-> SubSeq(p, Len(base) + 1, Len(p))]

\* str(log_dir) of a resolved, absolute path
AbsStr(p) == [abs |-> TRUE, parts |-> p]

(* ------------------------- the file system ---------------------------- *)
\* metric names as code points, so that sorted() is the real string order
NameLossCap == <<76, 111, 115, 115>>     \* "Loss"
NameAcc == <<97, 99, 99>>                \* "acc"
NameLoss == <<108, 111, 115, 115>>       \* "loss"
NameLr == <<108, 114>>                   \* "lr"

Ev(s, v, w) == [step |-> s, value |-> v, wall_time |-> w]

EVENT_PREFIX == "events.out.tfevents"

\* ea.Scalars(tag) returning a list of events, or raising
Ok(events) == [raises |-> FALSE, events |-> events]

Raises == [raises |-> TRUE, events |-> <<>>]

\* The files under the directories, in os.walk order.  failAt names the
\* EventAccumulator call that raises on the file ("none": no such call),
\* tags is Tags()["scalars"], scalars[i] is what Scalars(tags[i]) does.
FS == <<
    [dir |-> <<"a", "r1">>, name |-> <<EVENT_PREFIX, ".1">>, failAt |-> "none",
     tags |-> <<NameLoss, NameAcc>>,
     scalars |-> <<Ok(<<Ev(0, Rat(4, 1), 100), Ev(1, Rat(2, 1), 160), Ev(2, Rat(1, 1), 220)>>),
                   Ok(<<Ev(2, Rat(1, 2), 100), Ev(3, Rat(3, 4), 220)>>)>>],
    [dir |-> <<"a", "r1">>, name |-> <<EVENT_PREFIX, ".2">>, failAt |-> "none",
     tags |-> <<NameLoss>>,
     scalars |-> <<Ok(<<Ev(2, Rat(3, 1), 500), Ev(0, Rat(0, 1), 560)>>)>>],
    [dir |-> <<"a", "r1">>, name |-> <<"notes", ".txt">>, failAt |-> "open",
     tags |-> <<>>, scalars |-> <<>>],
    [dir |-> <<"a", "r2">>, name |-> <<EVENT_PREFIX, ".1">>, failAt |-> "none",
     tags |-> <<NameLoss, NameAcc, NameLr>>,
     scalars |-> <<Ok(<<Ev(1, Rat(5, 1), 100)>>), Raises, Ok(<<Ev(0, Rat(1, 1), 100)>>)>>],
    [dir |-> <<"c">>, name |-> <<EVENT_PREFIX, ".1">>, failAt |-> "open",
     tags |-> <<>>, scalars |-> <<>>],
    [dir |-> <<"c">>, name |-> <<EVENT_PREFIX, ".2">>, failAt |-> "none",
     tags |-> <<NameLr, NameLossCap>>,
     scalars |-> <<Ok(<<>>), Ok(<<Ev(1, Rat(2, 1), 100), Ev(1, Rat(6, 1), 130)>>)>>],
    [dir |-> <<"c">>, name |-> <<EVENT_PREFIX, ".3">>, failAt |-> "tags",
     tags |-> <<>>, scalars |-> <<>>]
>>

\* directories that exist
ExistingDirs == {<<"a">>, <<"a", "r1">>, <<"a", "r2">>, <<"c">>}

\* directories a caller may name (the last one does not exist)
DirChoices == {<<"a">>, <<"a", "r1">>, <<"c">>, <<"zz">>}

IsEventFile(f) == FS[f].name[1] = EVENT_PREFIX

EventFiles == {f \in 1..Len(FS) : IsEventFile(f)}

(* ------------------------------ state --------------------------------- *)
VARIABLES
    pc,               \* where control is
    caller,           \* "main", or the function called directly
    directories,      \* args.directories
    tb_files,         \* the event files to load (indices into FS)
    base_directories, \* load_tb_data's base_directories
    max_step,         \* load_tb_data's max_step
    fileIdx,          \* load_tb_data: position of the for loop over tb_files
    run_names,        \* load_tb_data: run_name of each iteration so far
    data,             \* the Metric Collection: metric name -> list of records
    stdout,           \* what has been printed
    opts,             \* create_visualization's options
    fig,              \* the figure: state, n_cols, n_rows
    metrics,          \* create_visualization: the sorted metric names
    idx,              \* create_visualization: index of the metric loop
    runIdx,           \* create_visualization: position in runs_data
    subplots,         \* the subplots added, in order
    curves,           \* the lines plotted, in order
    legends,          \* the legend of each finished subplot
    color_pos,        \* how many colors color_iter has handed out
    run_color_map,    \* run name -> color
    image,            \* whether the output file has been written
    sm_in,            \* smooth_values called directly: its arguments
    sm_out            \* smooth_values called directly: what it did

loadVars == <<tb_files, base_directories, max_step, fileIdx, run_names>>

vizVars == <<opts, fig, metrics, idx, runIdx, subplots, curves, legends, color_pos,
             run_color_map, image>>

smVars == <<sm_in, sm_out>>

vars == <<pc, caller, directories, data, stdout, loadVars, vizVars, smVars>>

(* --------------------------- find_tb_files ---------------------------- *)
\* os.walk(dir_path): the event files under one directory, in walk order
RECURSIVE WalkFrom(_, _)
WalkFrom(dir, f) ==
    IF f > Len(FS) THEN <<>>
    ELSE (IF IsRelativeTo(FS[f].dir, dir) /\ IsEventFile(f) THEN <<f>> ELSE <<>>)
         \o WalkFrom(dir, f + 1)

RECURSIVE find_tb_files(_)
find_tb_files(dirs) ==
    IF dirs = <<>> THEN <<>>
    ELSE (IF Head(dirs) \in ExistingDirs THEN WalkFrom(Head(dirs), 1) ELSE <<>>)
         \o find_tb_files(Tail(dirs))

\* the "Warning: directory does not exist" lines of find_tb_files
RECURSIVE FindWarnings(_)
FindWarnings(dirs) ==
    IF dirs = <<>> THEN <<>>
    ELSE (IF Head(dirs) \in ExistingDirs THEN <<>> ELSE <<"Warning: directory does not exist">>)
         \o FindWarnings(Tail(dirs))

(* ---------------------------- load_tb_data ---------------------------- *)
\* the loop over base_paths with its break that stops at the first root
\* the parent is relative to: the root's position, 0 when there is none
RECURSIVE FirstBase(_, _, _)
FirstBase(log_dir, bases, k) ==
    IF k > Len(bases) THEN 0
    ELSE IF IsRelativeTo(log_dir, bases[k]) THEN k
    ELSE FirstBase(log_dir, bases, k + 1)

\* the same loop without the break
RECURSIVE LastBase(_, _, _)
LastBase(log_dir, bases, k) ==
    IF k > Len(bases) THEN 0
    ELSE LET later == LastBase(log_dir, bases, k + 1)
         IN IF later # 0 THEN later
            ELSE IF IsRelativeTo(log_dir, bases[k]) THEN k ELSE 0

\* the last matching root instead of the first
MatchingBaseLast(log_dir, bases) == LastBase(log_dir, bases, 1)

MatchingBase(log_dir, bases) == FirstBase(log_dir, bases, 1)

RunName(f, bases) ==
    LET log_dir == FS[f].dir
        k == MatchingBase(log_dir, bases)
    IN IF k = 0 THEN AbsStr(log_dir) ELSE RelativeTo(log_dir, bases[k])

\* [(s, v, w) for ... if s <= max_step]
RECURSIVE FilterEvents(_, _)
FilterEvents(events, m) ==
    IF events = <<>> THEN <<>>
    ELSE (IF Head(events).step <= m THEN <<Head(events)>> ELSE <<>>)
         \o FilterEvents(Tail(events), m)

\* the filter with < in place of <=
KeptEventsStrict(events, mstep) ==
    IF mstep = NoneInt THEN events
    ELSE SelectSeq(events, LAMBDA e : e.step < mstep[1])

KeptEvents(events, mstep) ==
    IF mstep = NoneInt THEN events ELSE FilterEvents(events, mstep[1])

SeriesRecord(events, rn, f) ==
    [steps |-> [i \in 1..Len(events) |-> events[i].step],
     values |-> [i \in 1..Len(events) |-> events[i].value],
     walltimes |-> [i \in 1..Len(events) |-> events[i].wall_time],
     run_name |-> rn,
     file_path |-> f]

\* data[tag].append(record) on a defaultdict(list)
AppendRecord(d, tag, r) ==
    IF tag \in DOMAIN d THEN [d EXCEPT ![tag] = Append(@, r)]
    ELSE d @@ (tag :> <<r>>)

\* the for loop over scalar_tags from tag k on; ok is FALSE when a
\* Scalars call raised, and d holds what had been appended by then
RECURSIVE LoadTags(_, _, _, _, _)
LoadTags(d, f, k, rn, mstep) ==
    IF k > Len(FS[f].tags) THEN [data |-> d, ok |-> TRUE]
    ELSE IF FS[f].scalars[k].raises THEN [data |-> d, ok |-> FALSE]
    ELSE LET kept == KeptEvents(FS[f].scalars[k].events, mstep)
         IN IF kept = <<>>
            THEN LoadTags(d, f, k + 1, rn, mstep)
            ELSE LoadTags(AppendRecord(d, FS[f].tags[k], SeriesRecord(kept, rn, f)),
                          f, k + 1, rn, mstep)

\* the try block of one iteration over tb_files
LoadOne(d, f, rn, mstep) ==
    IF FS[f].failAt # "none" THEN [data |-> d, ok |-> FALSE]
    ELSE LoadTags(d, f, 1, rn, mstep)

EmptyData == [n \in {} |-> <<>>]

\* one iteration of the loop over tb_files
LoadFile ==
    /\ pc = "load"
    /\ fileIdx <= Len(tb_files)
    /\ LET f == tb_files[fileIdx]
           rn == RunName(f, base_directories)
           got == LoadOne(data, f, rn, max_step)
       IN /\ run_names' = Append(run_names, rn)
          /\ data' = got.data
          /\ stdout' = stdout \o <<"Loading">>
                       \o (IF got.ok THEN <<>> ELSE <<"Failed to load file">>)
    /\ fileIdx' = fileIdx + 1
    /\ UNCHANGED <<pc, caller, directories, tb_files, base_directories, max_step,
                   vizVars, smVars>>

\* return data
LoadReturn ==
    /\ pc = "load"
    /\ fileIdx > Len(tb_files)
    /\ pc' = IF caller = "main" THEN "check_data" ELSE "returned"
    /\ UNCHANGED <<caller, directories, data, stdout, loadVars, vizVars, smVars>>

(* ---------------------------- smooth_values --------------------------- *)
Returned(out) == [raised |-> FALSE, out |-> out]

Raised == [raised |-> TRUE, out |-> <<>>]

RECURSIVE RatSum(_)
RatSum(s) == IF s = <<>> THEN Rat(0, 1) ELSE RatAdd(Head(s), RatSum(Tail(s)))

\* np.convolve(a, v, mode="full")[k], k from 1
FullAt(a, v, k) ==
    RatSum([j \in 1..Len(a) |->
              IF k - j + 1 \in 1..Len(v) THEN RatMul(a[j], v[k - j + 1]) ELSE Rat(0, 1)])

\* np.convolve(a, v, mode="same"): the middle max(len a, len v) entries of
\* the full convolution; ValueError when either array is empty
ConvolveSame(a, v) ==
    IF Len(a) = 0 \/ Len(v) = 0 THEN Raised
    ELSE LET off == (Min(Len(a), Len(v)) - 1) \div 2
         IN Returned([k \in 1..Max(Len(a), Len(v)) |-> FullAt(a, v, k + off)])

\* smoothed[0..i-1] of the exponential recurrence
RECURSIVE Ema(_, _, _)
Ema(values, window, i) ==
    IF i = 1 THEN <<values[1]>>
    ELSE LET prev == Ema(values, window, i - 1)
             alpha == Rat(2, window + 1)
             rest == Rat(window - 1, window + 1)
         IN Append(prev, RatAdd(RatMul(alpha, values[i]), RatMul(rest, prev[i - 1])))

\* smooth_values without the "window <= 1" half of its guard
smooth_values_unguarded(values, method, window) ==
    IF window = NoneInt THEN Returned(values)
    ELSE IF method = "ma"
    THEN ConvolveSame(values, [i \in 1..window[1] |-> Rat(1, window[1])])
    ELSE IF Len(values) = 0 THEN Returned(values)
    ELSE Returned(Ema(values, window[1], Len(values)))

\* window is NoneInt or <<w>>; method is "ema", "ma" or NoMethod
smooth_values(values, method, window) ==
    IF window = NoneInt \/ window[1] <= 1 THEN Returned(values)
    ELSE IF method = "ma"
    THEN ConvolveSame(values, [i \in 1..window[1] |-> Rat(1, window[1])])
    ELSE IF Len(values) = 0 THEN Returned(values)
    ELSE Returned(Ema(values, window[1], Len(values)))

\* smooth_values called on its own
SmoothCall ==
    /\ pc = "smooth"
    /\ sm_out' = smooth_values(sm_in.values, sm_in.method, sm_in.window)
    /\ pc' = IF sm_out'.raised THEN "raised" ELSE "returned"
    /\ UNCHANGED <<caller, directories, data, stdout, loadVars, vizVars, sm_in>>

(* ------------------------ create_visualization ------------------------ *)
\* Python's order on strings, by code point
RECURSIVE LexLess(_, _)
LexLess(a, b) ==
    IF b = <<>> THEN FALSE
    ELSE IF a = <<>> THEN TRUE
    ELSE IF Head(a) # Head(b) THEN Head(a) < Head(b)
    ELSE LexLess(Tail(a), Tail(b))

\* sorted(data.items()): the keys are distinct, so the pairs sort by key
RECURSIVE SortedNames(_)
SortedNames(names) ==
    IF names = {} THEN <<>>
    ELSE LET least == CHOOSE n \in names : \A m \in names \ {n} : LexLess(n, m)
         IN <<least>> \o SortedNames(names \ {least})

FALLBACK_COLORS == <<"#1f77b4", "#ff7f0e", "#2ca02c", "#d62728", "#9467bd",
                     "#8c564b", "#e377c2", "#7f7f7f", "#bcbd22", "#17becf">>

\* the palette: rcParams' color cycle, or the fixed one when that is empty
Colors(rc_colors) == IF rc_colors = <<>> THEN FALLBACK_COLORS ELSE rc_colors

\* next(color_iter) after pos earlier calls
NextColor(colors, pos) == colors[(pos % Len(colors)) + 1]

\* "_nolegend_" as a label
NOLEGEND == [abs |-> FALSE, parts |-> <<"_nolegend_">>]

NCols(n_metrics, max_cols) == Min(n_metrics, max_cols)

\* rows by floor division
NRowsFloor(n_metrics, n_cols) == n_metrics \div n_cols

NRows(n_metrics, n_cols) == (n_metrics + n_cols - 1) \div n_cols

CellOf(i, n_cols) == [row |-> i \div n_cols, col |-> i % n_cols]

\* x_data: the steps, or the hours since the record's first wall time
XData(r, x_axis) ==
    IF x_axis = "walltime"
    THEN [i \in 1..Len(r.walltimes) |-> Rat(r.walltimes[i] - r.walltimes[1], 3600)]
    ELSE [i \in 1..Len(r.steps) |-> Rat(r.steps[i], 1)]

\* a color that ignores the table: always the next of the cycle
LookupColorFresh(map, rn, colors, pos) ==
    [color |-> NextColor(colors, pos),
     map |-> [n \in DOMAIN map \cup {rn} |->
                IF n = rn THEN NextColor(colors, pos) ELSE map[n]],
     pos |-> pos + 1]

\* run_color_map.get(run_name), and the assignment when it is None
LookupColor(map, rn, colors, pos) ==
    IF rn \in DOMAIN map THEN [color |-> map[rn], map |-> map, pos |-> pos]
    ELSE [color |-> NextColor(colors, pos),
          map |-> map @@ (rn :> NextColor(colors, pos)),
          pos |-> pos + 1]

Line(ax, run, x, y, label, color, alpha, lw) ==
    [ax |-> ax, run |-> run, x |-> x, y |-> y, label |-> label, color |-> color,
     alpha |-> alpha, linewidth |-> lw]

\* ax.plot(x, y, ...) raises ValueError when x and y differ in length
PlotRaises(x, y) == Len(x) # Len(y)

\* the lines one iteration over runs_data plots, and whether it raised;
\* alpha is in hundredths and linewidth in tenths
DrawOne(ax, run, r, o, color) ==
    LET x == XData(r, o.x_axis)
        raw == Line(ax, run, x, r.values, NOLEGEND, color, 35, 10)
    IN IF o.smooth_method # NoMethod /\ o.show_raw_and_smooth
       THEN LET sm == smooth_values(r.values, o.smooth_method, o.smooth_window)
            IN IF sm.raised \/ PlotRaises(x, sm.out)
               THEN [lines |-> <<raw>>, raised |-> TRUE]
               ELSE [lines |-> <<raw, Line(ax, run, x, sm.out, r.run_name, color, 90, 16)>>,
                     raised |-> FALSE]
       ELSE IF o.smooth_method # NoMethod
       THEN LET sm == smooth_values(r.values, o.smooth_method, o.smooth_window)
            IN IF sm.raised \/ PlotRaises(x, sm.out)
               THEN [lines |-> <<>>, raised |-> TRUE]
               ELSE [lines |-> <<Line(ax, run, x, sm.out, r.run_name, color, 80, 15)>>,
                     raised |-> FALSE]
       ELSE [lines |-> <<Line(ax, run, x, r.values, r.run_name, color, 80, 15)>>,
             raised |-> FALSE]

NoFig == [state |-> "none", n_cols |-> 0, n_rows |-> 0]

\* where control goes when a function returns to its caller
ReturnTo == IF caller = "main" THEN "viz_returned" ELSE "returned"

\* the entry of create_visualization with nothing to draw
VizEmpty ==
    /\ pc = "viz"
    /\ DOMAIN data = {}
    /\ stdout' = Append(stdout, "No data to visualize")
    /\ pc' = ReturnTo
    /\ UNCHANGED <<caller, directories, data, loadVars, vizVars, smVars>>

\* the entry of create_visualization: the layout, the figure, the palette
VizBegin ==
    /\ pc = "viz"
    /\ DOMAIN data # {}
    /\ LET n_metrics == Cardinality(DOMAIN data)
           n_cols == NCols(n_metrics, opts.max_cols)
       IN fig' = [state |-> "open", n_cols |-> n_cols, n_rows |-> NRows(n_metrics, n_cols)]
    /\ metrics' = SortedNames(DOMAIN data)
    /\ idx' = 0
    /\ color_pos' = 0
    /\ run_color_map' = [n \in {} |-> ""]
    /\ pc' = "subplot"
    /\ UNCHANGED <<caller, directories, data, stdout, loadVars, opts, runIdx,
                   subplots, curves, legends, image, smVars>>

\* fig.add_subplot(gs[row, col]) for the next metric; gs[row, col] raises
\* IndexError outside the grid
AddSubplot ==
    /\ pc = "subplot"
    /\ idx < Len(metrics)
    /\ LET cell == CellOf(idx, fig.n_cols)
       IN IF cell.row < fig.n_rows /\ cell.col < fig.n_cols
          THEN /\ subplots' = Append(subplots, [metric |-> metrics[idx + 1],
                                                row |-> cell.row, col |-> cell.col])
               /\ runIdx' = 1
               /\ pc' = "run"
          ELSE /\ pc' = "raised"
               /\ UNCHANGED <<subplots, runIdx>>
    /\ UNCHANGED <<caller, directories, data, stdout, loadVars, opts, fig, metrics, idx,
                   curves, legends, color_pos, run_color_map, image, smVars>>

\* one iteration of the loop over runs_data
DrawRun ==
    /\ pc = "run"
    /\ runIdx <= Len(data[metrics[idx + 1]])
    /\ LET r == data[metrics[idx + 1]][runIdx]
           c == LookupColor(run_color_map, r.run_name, Colors(opts.rc_colors), color_pos)
           drawn == DrawOne(idx, runIdx, r, opts, c.color)
       IN /\ run_color_map' = c.map
          /\ color_pos' = c.pos
          /\ curves' = curves \o drawn.lines
          /\ pc' = IF drawn.raised THEN "raised" ELSE "run"
          /\ runIdx' = IF drawn.raised THEN runIdx ELSE runIdx + 1
    /\ UNCHANGED <<caller, directories, data, stdout, loadVars, opts, fig, metrics, idx,
                   subplots, legends, image, smVars>>

\* ax.legend(): the labels of the subplot's lines, "_nolegend_" left out
RECURSIVE LegendOf(_, _)
LegendOf(lines, ax) ==
    IF lines = <<>> THEN <<>>
    ELSE (IF Head(lines).ax = ax /\ Head(lines).label # NOLEGEND
          THEN <<Head(lines).label>> ELSE <<>>)
         \o LegendOf(Tail(lines), ax)

\* the title, the labels, the grid and the legend of the subplot
FinishSubplot ==
    /\ pc = "run"
    /\ runIdx > Len(data[metrics[idx + 1]])
    /\ legends' = Append(legends,
                         [title |-> metrics[idx + 1],
                          xlabel |-> IF opts.x_axis = "walltime"
                                     THEN "Wall Time (hours)" ELSE "Step",
                          ylabel |-> "Value",
                          legend |-> LegendOf(curves, idx)])
    /\ idx' = idx + 1
    /\ pc' = "subplot"
    /\ UNCHANGED <<caller, directories, data, stdout, loadVars, opts, fig, metrics, runIdx,
                   subplots, curves, color_pos, run_color_map, image, smVars>>

\* fig.suptitle and plt.savefig writing the file; show is read only after
\* the save, so it is drawn here
SaveFig ==
    /\ pc = "subplot"
    /\ idx = Len(metrics)
    /\ image' = TRUE
    /\ stdout' = stdout \o <<"Visualization saved to", "Figure size", "Total metrics plotted">>
    /\ \E show \in BOOLEAN : pc' = IF show THEN "show" ELSE "close"
    /\ UNCHANGED <<caller, directories, data, loadVars, opts, fig, metrics, idx, runIdx,
                   subplots, curves, legends, color_pos, run_color_map, smVars>>

\* plt.savefig raising (the output path cannot be written)
SaveFigFails ==
    /\ pc = "subplot"
    /\ idx = Len(metrics)
    /\ pc' = "raised"
    /\ UNCHANGED <<caller, directories, data, stdout, loadVars, vizVars, smVars>>

\* plt.show() inside its try, showing or failing with a warning
ShowFig ==
    /\ pc = "show"
    /\ \E shown \in BOOLEAN :
         stdout' = IF shown THEN stdout
                   ELSE Append(stdout, "Warning: failed to show figure")
    /\ pc' = "close"
    /\ UNCHANGED <<caller, directories, data, loadVars, vizVars, smVars>>

\* plt.close(fig) and the return
CloseFig ==
    /\ pc = "close"
    /\ fig' = [fig EXCEPT !.state = "closed"]
    /\ pc' = ReturnTo
    /\ UNCHANGED <<caller, directories, data, stdout, loadVars, opts, metrics, idx, runIdx,
                   subplots, curves, legends, color_pos, run_color_map, image, smVars>>

(* -------------------------------- main -------------------------------- *)
\* the argparse defaults
DEFAULT_MAX_COLS == 3

DEFAULT_SMOOTH_WINDOW == 10

\* the command lines considered: directories, --smooth, --show-both and
\* --max-step given, every other option left at its default
MainOpts ==
    [max_cols : {DEFAULT_MAX_COLS},
     smooth_method : {NoMethod, "ema", "ma"},
     smooth_window : {Some(DEFAULT_SMOOTH_WINDOW)},
     show_raw_and_smooth : BOOLEAN,
     x_axis : {"step"},
     rc_colors : {<<>>}]

Banner == <<"TensorBoard Visualization Tool", "Search directories">>

\* the same without the return: main goes on to load_tb_data
MainNoFilesFallsThrough ==
    /\ pc = "find"
    /\ find_tb_files(directories) = <<>>
    /\ tb_files' = <<>>
    /\ stdout' = stdout \o Banner \o FindWarnings(directories)
                 \o <<"Error: no TensorBoard event files found">>
    /\ base_directories' = directories
    /\ pc' = "load"
    /\ UNCHANGED <<caller, directories, data, max_step, fileIdx, run_names,
                   vizVars, smVars>>

\* find_tb_files returning nothing: the message and the return
MainNoFiles ==
    /\ pc = "find"
    /\ find_tb_files(directories) = <<>>
    /\ tb_files' = <<>>
    /\ stdout' = stdout \o Banner \o FindWarnings(directories)
                 \o <<"Error: no TensorBoard event files found">>
    /\ pc' = "returned"
    /\ UNCHANGED <<caller, directories, data, base_directories, max_step, fileIdx,
                   run_names, vizVars, smVars>>

\* find_tb_files returning files, and the call of load_tb_data
MainLoad ==
    /\ pc = "find"
    /\ find_tb_files(directories) # <<>>
    /\ tb_files' = find_tb_files(directories)
    /\ stdout' = stdout \o Banner \o FindWarnings(directories) \o <<"Found">>
    /\ base_directories' = directories
    /\ max_step' \in OptInts(0, MaxStepArg)
    /\ fileIdx' = 1
    /\ run_names' = <<>>
    /\ data' = EmptyData
    /\ pc' = "load"
    /\ UNCHANGED <<caller, directories, vizVars, smVars>>

\* load_tb_data returning nothing: the message and the return
MainNoData ==
    /\ pc = "check_data"
    /\ DOMAIN data = {}
    /\ stdout' = Append(stdout, "Error: failed to load any data")
    /\ pc' = "returned"
    /\ UNCHANGED <<caller, directories, data, loadVars, vizVars, smVars>>

\* the call of create_visualization
MainVisualize ==
    /\ pc = "check_data"
    /\ DOMAIN data # {}
    /\ stdout' = Append(stdout, "Successfully loaded")
    /\ opts' \in MainOpts
    /\ pc' = "viz"
    /\ UNCHANGED <<caller, directories, data, loadVars, fig, metrics, idx, runIdx, subplots,
                   curves, legends, color_pos, run_color_map, image, smVars>>

\* print("Done!") after create_visualization returned
MainDone ==
    /\ pc = "viz_returned"
    /\ stdout' = Append(stdout, "Done!")
    /\ pc' = "returned"
    /\ UNCHANGED <<caller, directories, data, loadVars, vizVars, smVars>>

(* --------------------------- specifications --------------------------- *)
IdleOpts ==
    [max_cols |-> DEFAULT_MAX_COLS, smooth_method |-> NoMethod,
     smooth_window |-> Some(DEFAULT_SMOOTH_WINDOW), show_raw_and_smooth |-> FALSE,
     x_axis |-> "step", rc_colors |-> <<>>]

LoadIdle ==
    /\ tb_files = <<>>
    /\ base_directories = <<>>
    /\ max_step = NoneInt
    /\ fileIdx = 1
    /\ run_names = <<>>

VizIdle ==
    /\ fig = NoFig
    /\ metrics = <<>>
    /\ idx = 0
    /\ runIdx = 1
    /\ subplots = <<>>
    /\ curves = <<>>
    /\ legends = <<>>
    /\ color_pos = 0
    /\ run_color_map = [n \in {} |-> ""]
    /\ image = FALSE

SmoothIdle ==
    /\ sm_in = [values |-> <<>>, method |-> "ema", window |-> NoneInt]
    /\ sm_out = Returned(<<>>)

\* main() on a command line
MainInit ==
    /\ pc = "find"
    /\ caller = "main"
    /\ directories \in SeqsUpTo(DirChoices, MaxBases) \ {<<>>}
    /\ data = EmptyData
    /\ stdout = <<>>
    /\ opts = IdleOpts
    /\ LoadIdle
    /\ VizIdle
    /\ SmoothIdle

\* create_visualization called on the empty collection
EmptyVizInit ==
    /\ pc = "viz"
    /\ caller = "create_visualization"
    /\ directories = <<>>
    /\ data = EmptyData
    /\ stdout = <<>>
    /\ opts \in MainOpts
    /\ LoadIdle
    /\ VizIdle
    /\ SmoothIdle

\* the pipeline: main(), and the composer handed nothing
Init == MainInit \/ EmptyVizInit

LoadNext == LoadFile \/ LoadReturn

VizNext ==
    \/ VizEmpty
    \/ VizBegin
    \/ AddSubplot
    \/ DrawRun
    \/ FinishSubplot
    \/ SaveFig
    \/ SaveFigFails
    \/ ShowFig
    \/ CloseFig

Next ==
    \/ MainNoFiles
    \/ MainLoad
    \/ LoadFile
    \/ LoadReturn
    \/ MainNoData
    \/ MainVisualize
    \/ VizEmpty
    \/ VizBegin
    \/ AddSubplot
    \/ DrawRun
    \/ FinishSubplot
    \/ SaveFig
    \/ SaveFigFails
    \/ ShowFig
    \/ CloseFig
    \/ MainDone

Spec == Init /\ [][Next]_vars

\* load_tb_data called on any file list, root list and max_step
LoadInit ==
    /\ pc = "load"
    /\ caller = "load_tb_data"
    /\ directories = <<>>
    /\ tb_files \in SeqsUpTo(EventFiles, MaxFiles)
    /\ base_directories \in SeqsUpTo(DirChoices, MaxBases)
    /\ max_step \in OptInts(0, MaxStepArg)
    /\ fileIdx = 1
    /\ run_names = <<>>
    /\ data = EmptyData
    /\ stdout = <<>>
    /\ opts = IdleOpts
    /\ VizIdle
    /\ SmoothIdle

LoadSpec == LoadInit /\ [][LoadNext]_vars

\* Series Records a Metric Collection may hold
Rec(f, k, rn) == SeriesRecord(FS[f].scalars[k].events, rn, f)

RunR1 == RelativeTo(<<"a", "r1">>, <<"a">>)

RunDot == RelativeTo(<<"a", "r2">>, <<"a", "r2">>)

RunAbsC == AbsStr(<<"c">>)

ListA == <<Rec(1, 1, RunR1), Rec(2, 1, RunR1)>>

ListB == <<Rec(4, 1, RunDot), Rec(1, 2, RunR1)>>

ListC == <<Rec(6, 2, RunAbsC), Rec(4, 3, RunDot), Rec(1, 1, RunR1)>>

\* the lists a metric may have; <<>> stands for a metric that is absent
ListChoices ==
    (NameLossCap :> {<<>>, ListA}) @@ (NameAcc :> {<<>>, ListB})
    @@ (NameLoss :> {<<>>, ListA, ListC}) @@ (NameLr :> {<<>>, ListC})

AllNames == {NameLossCap, NameAcc, NameLoss, NameLr}

\* the Metric Collections create_visualization is called on
VizData ==
    {[n \in {m \in AllNames : pick[m] # <<>>} |-> pick[n]] :
        pick \in {p \in [AllNames -> {<<>>, ListA, ListB, ListC}] :
                    \A n \in AllNames : p[n] \in ListChoices[n]}}

VizOpts ==
    [max_cols : 1..MaxCols,
     smooth_method : {NoMethod, "ema", "ma"},
     smooth_window : OptInts(0, MaxWindow),
     show_raw_and_smooth : BOOLEAN,
     x_axis : {"step", "walltime"},
     rc_colors : {<<>>, <<"C0", "C1">>}]

\* create_visualization called on any collection and options
VizInit ==
    /\ pc = "viz"
    /\ caller = "create_visualization"
    /\ directories = <<>>
    /\ data \in VizData
    /\ opts \in VizOpts
    /\ stdout = <<>>
    /\ LoadIdle
    /\ VizIdle
    /\ SmoothIdle

VizSpec == VizInit /\ [][VizNext]_vars

SmoothVals == {Rat(0, 1), Rat(1, 1), Rat(3, 2)}

\* smooth_values called on any sequence, method and window
SmoothInit ==
    /\ pc = "smooth"
    /\ caller = "smooth_values"
    /\ directories = <<>>
    /\ data = EmptyData
    /\ stdout = <<>>
    /\ opts = IdleOpts
    /\ LoadIdle
    /\ VizIdle
    /\ sm_in \in [values : SeqsUpTo(SmoothVals, MaxLen),
                  method : {"ema", "ma", NoMethod},
                  window : OptInts(0, MaxWindow)]
    /\ sm_out = Returned(<<>>)

SmoothNext == SmoothCall

SmoothSpec == SmoothInit /\ [][SmoothNext]_vars

(* ======================= claims: load_tb_data ========================= *)
LoadDone == caller = "load_tb_data" /\ pc = "returned"

\* the records of the collection that file f contributed under a tag
RecordsOf(f, tag) ==
    IF tag \in DOMAIN data
    THEN {data[tag][i] : i \in {j \in 1..Len(data[tag]) : data[tag][j].file_path = f}}
    ELSE {}

\* the positions of a tag's observations whose step is at most m
KeptAt(events, m) == {j \in 1..Len(events) : events[j].step <= m}

\* the n-th of those positions, in the original order
NthKept(events, m, n) ==
    CHOOSE j \in KeptAt(events, m) :
        Cardinality({i \in KeptAt(events, m) : i < j}) = n - 1

\* r holds exactly the observations with step <= m, in their order
HoldsExactlyKept(r, events, m) ==
    /\ Len(r.steps) = Cardinality(KeptAt(events, m))
    /\ Len(r.values) = Len(r.steps)
    /\ Len(r.walltimes) = Len(r.steps)
    /\ \A n \in 1..Len(r.steps) :
         /\ r.steps[n] = events[NthKept(events, m, n)].step
         /\ r.values[n] = events[NthKept(events, m, n)].value
         /\ r.walltimes[n] = events[NthKept(events, m, n)].wall_time

\* the filter rule for tag k of file f
FilterRule(f, k, m) ==
    LET events == FS[f].scalars[k].events
        recs == RecordsOf(f, FS[f].tags[k])
    IN /\ (recs # {}) <=> (KeptAt(events, m) # {})
       /\ \A r \in recs : HoldsExactlyKept(r, events, m)

\* load_tb_data fetched tag k of file f: nothing raised up to that tag
Fetched(f, k) ==
    /\ FS[f].failAt = "none"
    /\ \A j \in 1..k : ~FS[f].scalars[j].raises

\* C1 as stated: with max_step = M, for every file and every scalar tag of
\* the file, the collection holds a record for (file, tag) exactly when the
\* tag has an observation with step <= M, and the record holds exactly those
\* observations in their original order.
C1_EveryTagOfEveryFile ==
    (LoadDone /\ max_step # NoneInt) =>
        \A i \in 1..Len(tb_files) : \A k \in 1..Len(FS[tb_files[i]].tags) :
            FilterRule(tb_files[i], k, max_step[1])

\* C1 amended: the same for every tag that load_tb_data fetched (no call on
\* the file raised up to and including that tag); every stored record comes
\* from such a tag, so no stored record holds a step > M.
C1_EveryFetchedTag ==
    (caller = "load_tb_data" /\ max_step # NoneInt) =>
        /\ \A i \in 1..(fileIdx - 1) : \A k \in 1..Len(FS[tb_files[i]].tags) :
              Fetched(tb_files[i], k) => FilterRule(tb_files[i], k, max_step[1])
        /\ \A tag \in DOMAIN data : \A n \in 1..Len(data[tag]) :
              /\ \A j \in 1..Len(data[tag][n].steps) : data[tag][n].steps[j] <= max_step[1]
              /\ \E k \in 1..Len(FS[data[tag][n].file_path].tags) :
                    /\ FS[data[tag][n].file_path].tags[k] = tag
                    /\ Fetched(data[tag][n].file_path, k)

\* a load with max_step = 1 of the file whose "loss" has steps 0, 1, 2 and
\* whose "acc" has steps 2, 3: "loss" is cut to 0, 1 and "acc" is absent
C1_Witness ==
    /\ LoadDone
    /\ max_step = Some(1)
    /\ tb_files = <<1>>
    /\ NameAcc \notin DOMAIN data
    /\ NameLoss \in DOMAIN data
    /\ data[NameLoss][1].steps = <<0, 1>>

\* reading file f raises at some point
Fails(f) ==
    \/ FS[f].failAt # "none"
    \/ \E k \in 1..Len(FS[f].tags) : FS[f].scalars[k].raises

\* load_tb_data run from collection d over a file list
RECURSIVE LoadAll(_, _, _, _)
LoadAll(d, files, bases, mstep) ==
    IF files = <<>> THEN d
    ELSE LoadAll(LoadOne(d, Head(files), RunName(Head(files), bases), mstep).data,
                 Tail(files), bases, mstep)

\* C2: when reading some files raises, load_tb_data returns without raising
\* and its result equals the result for the list without the failing files.
C2_FailingFilesContributeNothing ==
    caller = "load_tb_data" =>
        /\ pc # "raised"
        /\ pc = "returned" =>
              data = LoadAll(EmptyData, SelectSeq(tb_files, LAMBDA f : ~Fails(f)),
                             base_directories, max_step)

\* the parent of file f is root b or lies under it
Under(f, b) == IsRelativeTo(FS[f].dir, b)

\* the run identifier of file f by the rule: relative to the first root, in
\* the supplied order, that the parent falls under; else the absolute parent
IsRunIdentifier(rn, f, bases) ==
    \/ \E j \in 1..Len(bases) :
         /\ Under(f, bases[j])
         /\ \A k \in 1..(j - 1) : ~Under(f, bases[k])
         /\ rn = [abs |-> FALSE,
                  parts |-> [n \in 1..(Len(FS[f].dir) - Len(bases[j])) |->
                               FS[f].dir[Len(bases[j]) + n]]]
    \/ /\ \A j \in 1..Len(bases) : ~Under(f, bases[j])
       /\ rn = [abs |-> TRUE, parts |-> FS[f].dir]

SmoothDone == caller = "smooth_values" /\ pc \in {"returned", "raised"}

WindowAtMostOne == sm_in.window = NoneInt \/ sm_in.window[1] <= 1

\* C3: for every non-empty v, either method and every window (also one
\* larger than len(v)), the result is as long as v.
C3_LengthPreserved ==
    (SmoothDone /\ sm_in.values # <<>> /\ sm_in.method \in {"ema", "ma"}) =>
        /\ ~sm_out.raised
        /\ Len(sm_out.out) = Len(sm_in.values)

\* C10 as stated: v comes back unchanged whenever the window is absent or
\* <= 1, and also whenever no method is requested, whatever the window.
C10_IdentityAlsoWithoutMethod ==
    (SmoothDone /\ (WindowAtMostOne \/ sm_in.method = NoMethod)) =>
        /\ ~sm_out.raised
        /\ SameValues(sm_out.out, sm_in.values)

\* C10 amended: v (also the empty one) comes back unchanged whenever the
\* window is absent or <= 1, for "ema", "ma" and no method alike; with no
\* method and a window > 1 the result is the exponential moving average.
C10_IdentityForSmallWindow ==
    /\ (SmoothDone /\ WindowAtMostOne) =>
          /\ ~sm_out.raised
          /\ SameValues(sm_out.out, sm_in.values)
    /\ (SmoothDone /\ ~WindowAtMostOne /\ sm_in.method = NoMethod) =>
          LET w == sm_in.window[1]
              v == sm_in.values
              out == sm_out.out
          IN /\ ~sm_out.raised
             /\ Len(out) = Len(v)
             /\ \A i \in 1..Len(v) :
                   IF i = 1 THEN RatEq(out[1], v[1])
                   ELSE RatEq(RatMul(Rat(w + 1, 1), out[i]),
                              RatAdd(RatMul(Rat(2, 1), v[i]),
                                     RatMul(Rat(w - 1, 1), out[i - 1])))

\* a moving average over window 0 of a two-element sequence, returned as is
C10_Witness ==
    /\ SmoothDone
    /\ sm_in.method = "ma"
    /\ sm_in.window = Some(0)
    /\ Len(sm_in.values) = 2
    /\ sm_out = Returned(sm_in.values)

(* =================== claims: create_visualization ===================== *)
VizCalled == caller = "create_visualization"

\* the record a plotted line belongs to
RecordOf(c) == data[metrics[c.ax + 1]][c.run]

\* C4: a run's color, once in the table, never changes, and every line is
\* drawn in the table's color for its record's run; so lines of records with
\* one run identifier have one color, in every subplot.
C4_OneColorPerRun ==
    VizCalled =>
        LET run == [i \in 1..Len(curves) |-> RecordOf(curves[i]).run_name]
        IN /\ \A i \in 1..Len(curves) :
                 /\ run[i] \in DOMAIN run_color_map
                 /\ curves[i].color = run_color_map[run[i]]
           /\ \A i, j \in 1..Len(curves) :
                 run[i] = run[j] => curves[i].color = curves[j].color

\* one run drawn in two subplots, with a second run in between, after the
\* whole figure was drawn
C4_Witness ==
    /\ VizCalled
    /\ pc = "returned"
    /\ color_pos >= 2
    /\ \E i, j \in 1..Len(curves) :
          /\ curves[i].ax # curves[j].ax
          /\ RecordOf(curves[i]).run_name = RecordOf(curves[j]).run_name
          /\ curves[i].color = curves[j].color

\* how many metric names sort before name
Rank(name) == Cardinality({m \in DOMAIN data : LexLess(m, name)})

\* C6: columns = min(n, max_cols), rows = ceiling(n / columns); the i-th
\* metric in sorted order sits at (i div columns, i mod columns), inside the
\* grid, no two in one cell; adding a subplot never fails, so every metric
\* the loop comes to gets its cell and a finished loop has placed them all.
C6_GridLayout ==
    (VizCalled /\ fig.state # "none") =>
        LET n == Cardinality(DOMAIN data)
        IN /\ fig.n_cols <= opts.max_cols
           /\ fig.n_cols <= n
           /\ fig.n_cols = opts.max_cols \/ fig.n_cols = n
           /\ fig.n_rows * fig.n_cols >= n
           /\ (fig.n_rows - 1) * fig.n_cols < n
           /\ \A i \in 1..Len(subplots) :
                 /\ subplots[i].metric \in DOMAIN data
                 /\ Rank(subplots[i].metric) = i - 1
                 /\ subplots[i].row * fig.n_cols + subplots[i].col = i - 1
                 /\ subplots[i].col \in 0..(fig.n_cols - 1)
                 /\ subplots[i].row \in 0..(fig.n_rows - 1)
           /\ \A i, j \in 1..Len(subplots) :
                 (subplots[i].row = subplots[j].row /\ subplots[i].col = subplots[j].col)
                     => i = j
           /\ pc = "raised" => (Len(subplots) = idx + 1 \/ idx = n)
           /\ pc \in {"show", "close", "returned"} => Len(subplots) = n

\* four metrics under max_cols = 3: a 2 x 3 grid, the fourth metric at (1, 0)
C6_Witness ==
    /\ VizCalled
    /\ pc = "returned"
    /\ opts.max_cols = 3
    /\ Len(subplots) = 4
    /\ fig.n_rows = 2
    /\ subplots[4].row = 1
    /\ subplots[4].col = 0

\* the lines plotted for record run of subplot ax
LinesOf(ax, run) ==
    SelectSeq(curves, LAMBDA c : c.ax = ax /\ c.run = run)

\* the loop has been through record run of subplot ax
Drawn(ax, run) ==
    /\ ax \in 0..(Len(metrics) - 1)
    /\ run \in 1..Len(data[metrics[ax + 1]])
    /\ \/ ax < idx
       \/ /\ ax = idx
          /\ pc \in {"run", "raised"}
          /\ run < runIdx \/ (pc = "raised" /\ run = runIdx)

\* C8: per record, smoothing with show-both draws exactly two lines, the
\* raw one first and out of the legend, then the smoothed one labeled with
\* the run identifier, in one color; otherwise exactly one line, labeled
\* with the run identifier (smoothed if smoothing is requested, else raw).
C8_CurvesPerRecord ==
    VizCalled =>
        \A ax \in 0..(Len(metrics) - 1) : \A run \in 1..Len(data[metrics[ax + 1]]) :
            Drawn(ax, run) =>
                LET r == data[metrics[ax + 1]][run]
                    lines == LinesOf(ax, run)
                IN IF opts.smooth_method # NoMethod /\ opts.show_raw_and_smooth
                   THEN /\ Len(lines) = 2
                        /\ lines[1].label = NOLEGEND
                        /\ lines[1].y = r.values
                        /\ lines[2].label = r.run_name
                        /\ Len(lines[2].y) = Len(r.values)
                        /\ lines[2].color = lines[1].color
                   ELSE /\ Len(lines) = 1
                        /\ lines[1].label = r.run_name
                        /\ opts.smooth_method = NoMethod => lines[1].y = r.values
                        /\ Len(lines[1].y) = Len(r.values)

\* C9: a call that created a figure has closed it when control is back at
\* the caller, by return or by an error.
C9_FigureReleased ==
    (VizCalled /\ pc \in {"returned", "raised"} /\ fig.state # "none") =>
        fig.state = "closed"

(* ========================== claims: main ============================== *)
\* some named directory exists and holds an event file, at any depth
SomeEventFile ==
    \E d \in Range(directories) : \E f \in 1..Len(FS) :
        /\ d \in ExistingDirs
        /\ FS[f].name[1] = EVENT_PREFIX
        /\ IsRelativeTo(FS[f].dir, d)

\* nothing was merged, drawn or written
NothingMerged == run_names = <<>> /\ DOMAIN data = {} /\ "Loading" \notin Range(stdout)

NothingDrawn ==
    /\ fig.state = "none"
    /\ subplots = <<>>
    /\ curves = <<>>
    /\ ~image

Last(s) == s[Len(s)]

\* C7: the image is written only after the locator returned a file and the
\* merge left a non-empty collection, in that order; with no matching file
\* the run says so and returns without merging, drawing or writing; with no
\* data after loading, or an empty collection handed to the composer, it
\* returns without drawing or writing; none of these ends by raising.
C7_ImageOnlyFromData ==
    /\ image => DOMAIN data # {}
    /\ (caller = "main" /\ image) =>
          /\ SomeEventFile
          /\ tb_files # <<>>
          /\ fileIdx = Len(tb_files) + 1
          /\ \E i, j \in 1..Len(stdout) :
                /\ i < j
                /\ stdout[i] = "Found"
                /\ stdout[j] = "Successfully loaded"
                /\ \A k \in 1..Len(stdout) : stdout[k] = "Loading" => (i < k /\ k < j)
    /\ (caller = "main" /\ pc # "find" /\ ~SomeEventFile) =>
          /\ pc = "returned"
          /\ Last(stdout) = "Error: no TensorBoard event files found"
          /\ NothingMerged
          /\ NothingDrawn
    /\ (caller = "main" /\ pc \notin {"find", "load", "check_data"}
           /\ SomeEventFile /\ DOMAIN data = {}) =>
          /\ pc = "returned"
          /\ Last(stdout) = "Error: failed to load any data"
          /\ NothingDrawn
    /\ (caller = "create_visualization" /\ pc # "viz" /\ DOMAIN data = {}) =>
          /\ pc = "returned"
          /\ stdout = <<"No data to visualize">>
          /\ NothingDrawn

\* main on a directory whose files all fail or hold nothing within
\* max_step: files were found and read, no data came of it, main returned
C7_Witness ==
    /\ caller = "main"
    /\ pc = "returned"
    /\ directories = << <<"c">> >>
    /\ Len(tb_files) = 3
    /\ fileIdx = 4
    /\ DOMAIN data = {}
    /\ Last(stdout) = "Error: failed to load any data"
    /\ ~image

====
